---- MODULE Spec2Model ----
(***************************************************************************)
(* TViewerErrorNotifier (src/index.ts): an axios response-error hook that  *)
(* sends a Telegram notification (inline message or error.json upload),    *)
(* appends a block to a local log and re-raises the intercepted error.     *)
(*                                                                         *)
(* JavaScript values are written as strings: Undefined is the value        *)
(* undefined, EmptyObj the literal {}, Circular an object JSON.stringify   *)
(* throws a TypeError on.  An absent property is an absent record field.   *)
(* Cyrillic literals of the source are transliterated (the module is       *)
(* ASCII).                                                                 *)
(*                                                                         *)
(* Scheduling: code between two awaits runs to completion; after an I/O    *)
(* callback the promise continuations it made runnable (microtasks) run    *)
(* before the next I/O callback.  Quiescent is that condition.             *)
(***************************************************************************)
EXTENDS Naturals, FiniteSets, Sequences, TLC

\* number of failures intercepted in one run, each by its own handler
NumHandlers == 2

Handlers == 1..NumHandlers

Undefined == "undefined"
EmptyObj == "{}"
Circular == "circular"

\* 'Нет ответа'
NoResponse == "Net otveta"

\* 'botToken обязателен для настройки.' / 'chatId обязателен для настройки.'
BotTokenRequired == "botToken obyazatelen dlya nastrojki."
ChatIdRequired == "chatId obyazatelen dlya nastrojki."

DefaultLogFilePath == "./error.log"

VARIABLES
  options,        \* the argument of `new TViewerErrorNotifier(...)`
  phase,          \* "new", "failed" (constructor threw), "ready"
  this,           \* the instance's fields (none before construction)
  thrown,         \* message of the Error the constructor threw, "" if none
  axiosCreated,   \* number of axios.create() calls
  interceptors,   \* number of response interceptors registered
  pc,             \* per handler: position in the interceptor
  error,          \* per handler: the intercepted AxiosError
  errorDetails,   \* per handler: the ErrorDetails record
  delivery,       \* per handler: delivery path entered ("none" before)
  exc,            \* per handler: exception in flight inside the interceptor
  post,           \* per handler: the Telegram POST ("none","pending","ok","failed")
  msgPosts,       \* per handler: sendMessage requests issued
  docPosts,       \* per handler: sendDocument requests issued
  tempWrites,     \* per handler: successful writeFileSync calls
  uploaded,       \* per handler: what the upload's read stream got
  file,           \* the temp file path.join(__dirname, 'error.json'), shared by all calls
  logIssued,      \* per handler: fs.appendFile calls
  logState,       \* per handler: "none","pending","written","failed"
  diag,           \* per handler: console.error reports
  callerOutcome,  \* per handler: what the caller's promise settled with
  overlapped      \* per handler: it ran while another handler was running

vars == <<options, phase, this, thrown, axiosCreated, interceptors, pc, error,
          errorDetails, delivery, exc, post, msgPosts, docPosts, tempWrites,
          uploaded, file, logIssued, logState, diag, callerOutcome, overlapped>>

ctorVars == <<options, phase, this, thrown, axiosCreated, interceptors>>

----------------------------------------------------------------------------
\* Inputs

OptionNames == {"botToken", "chatId", "sendAsFile", "logFilePath"}

FullOptions == [botToken : {"", "123:abc"}, chatId : {"", "-100200"},
                sendAsFile : BOOLEAN, logFilePath : {"./api.log"}]

\* every subset of the four options may be absent
NotifierOptions == {[f \in D |-> o[f]] : o \in FullOptions, D \in SUBSET OptionNames}

ReqOk == [url |-> "/items", method |-> "get", headers |-> "{accept}"]
Resp404 == [status |-> "404", statusText |-> "Not Found",
            data |-> "{error:not found}"]
\* responseType 'stream': response.data is the response stream, an object
\* with circular references
RespStream == [status |-> "500", statusText |-> "Internal Server Error",
               data |-> Circular]

\* AxiosError: config and response are both optional
AxiosErrors == { [config |-> ReqOk, response |-> Resp404],
                 [config |-> ReqOk],
                 [x \in {} |-> Undefined],
                 [config |-> ReqOk, response |-> RespStream] }

NoError == [none |-> TRUE]
NoDetails == [none |-> TRUE]

----------------------------------------------------------------------------
\* Pure helpers

\* !v for a string option: absent, undefined or ''
Falsy(r, f) == f \notin DOMAIN r \/ r[f] = Undefined \/ r[f] = ""

\* r?.f || dflt
OrDefault(r, f, dflt) == IF Falsy(r, f) THEN dflt ELSE r[f]

\* destructuring default: used only when the option is absent
Default(r, f, dflt) == IF f \in DOMAIN r THEN r[f] ELSE dflt

ConfigOf(e) == IF "config" \in DOMAIN e THEN e.config ELSE [x \in {} |-> Undefined]

HasResponse(e) == "response" \in DOMAIN e

\* constructor, lines 44-49: the message of the Error thrown, "" if none
ConfigurationErrorChatOnly(o) ==
  IF Falsy(o, "chatId") THEN ChatIdRequired ELSE ""

ConfigurationError(o) ==
  IF Falsy(o, "botToken") THEN BotTokenRequired
  ELSE IF Falsy(o, "chatId") THEN ChatIdRequired
  ELSE ""

\* handleError, lines 74-83
BuildErrorDetailsStatusOnly(e) ==
  LET c == ConfigOf(e) IN
  [ url          |-> OrDefault(c, "url", ""),
    method       |-> OrDefault(c, "method", ""),
    headers      |-> OrDefault(c, "headers", EmptyObj),
    params       |-> OrDefault(c, "params", EmptyObj),
    data         |-> OrDefault(c, "data", EmptyObj),
    status       |-> IF HasResponse(e) THEN e.response.status ELSE NoResponse,
    statusText   |-> NoResponse,
    responseData |-> IF HasResponse(e) THEN Default(e.response, "data", Undefined)
                     ELSE NoResponse ]

BuildErrorDetails(e) ==
  LET c == ConfigOf(e) IN
  [ url          |-> OrDefault(c, "url", ""),
    method       |-> OrDefault(c, "method", ""),
    headers      |-> OrDefault(c, "headers", EmptyObj),
    params       |-> OrDefault(c, "params", EmptyObj),
    data         |-> OrDefault(c, "data", EmptyObj),
    status       |-> IF HasResponse(e) THEN e.response.status ELSE NoResponse,
    statusText   |-> IF HasResponse(e) THEN e.response.statusText ELSE NoResponse,
    responseData |-> IF HasResponse(e) THEN Default(e.response, "data", Undefined)
                     ELSE NoResponse ]

\* handleError, lines 85-89
DeliveryPathInverted(asFile) == IF asFile THEN "inline" ELSE "file"

DeliveryPath(asFile) == IF asFile THEN "file" ELSE "inline"

\* JSON.stringify throws a TypeError on a circular structure.
\* sendErrorMessage, lines 103-108
MessageThrows(d) == Circular \in {d.headers, d.params, d.data, d.responseData}

\* sendErrorAsFile, lines 136-145
JsonContentThrows(d) == Circular \in {d.headers, d.params, d.data, d.responseData}

\* logError, lines 173-175
LogEntryThrows(d) == Circular \in {d.data, d.responseData}

\* the error objects a caller can be handed
OriginalError(h) == <<"AxiosError", h>>
SecondaryError(kind, h) == <<kind, h>>
NoException == <<"none", 0>>

NoFile == [exists |-> FALSE, writer |-> 0]
NotRead == [state |-> "unread", writer |-> 0]
Unsettled == [state |-> "pending", reason |-> NoException]

\* no promise continuation is waiting to run
Quiescent == \A h \in Handlers : pc[h] \notin {"sendSettled", "handleSettled"}

Running(h) == pc[h] \notin {"idle", "done"}

----------------------------------------------------------------------------
Init ==
  /\ options \in NotifierOptions
  /\ phase = "new"
  /\ this = [x \in {} |-> Undefined]
  /\ thrown = ""
  /\ axiosCreated = 0
  /\ interceptors = 0
  /\ pc = [h \in Handlers |-> "idle"]
  /\ error = [h \in Handlers |-> NoError]
  /\ errorDetails = [h \in Handlers |-> NoDetails]
  /\ delivery = [h \in Handlers |-> "none"]
  /\ exc = [h \in Handlers |-> NoException]
  /\ post = [h \in Handlers |-> "none"]
  /\ msgPosts = [h \in Handlers |-> 0]
  /\ docPosts = [h \in Handlers |-> 0]
  /\ tempWrites = [h \in Handlers |-> 0]
  /\ uploaded = [h \in Handlers |-> NotRead]
  /\ file = NoFile
  /\ logIssued = [h \in Handlers |-> 0]
  /\ logState = [h \in Handlers |-> "none"]
  /\ diag = [h \in Handlers |-> {}]
  /\ callerOutcome = [h \in Handlers |-> Unsettled]
  /\ overlapped = [h \in Handlers |-> FALSE]

handlerVars == <<pc, error, errorDetails, delivery, exc, post, msgPosts, docPosts,
                 tempWrites, uploaded, file, logIssued, logState, diag,
                 callerOutcome, overlapped>>

\* constructor, lines 43-65
Construct ==
  /\ phase = "new"
  /\ LET err == ConfigurationError(options) IN
     IF err # ""
     THEN /\ phase' = "failed"
          /\ thrown' = err
          /\ UNCHANGED <<this, axiosCreated, interceptors>>
     ELSE /\ phase' = "ready"
          /\ this' = [ botToken    |-> Default(options, "botToken", Undefined),
                       chatId      |-> Default(options, "chatId", Undefined),
                       sendAsFile  |-> Default(options, "sendAsFile", FALSE),
                       logFilePath |-> Default(options, "logFilePath", DefaultLogFilePath) ]
          /\ axiosCreated' = axiosCreated + 1
          /\ interceptors' = interceptors + 1
          /\ UNCHANGED thrown
  /\ UNCHANGED <<options, handlerVars>>

\* fs.writeFileSync(filePath, jsonContent), line 148: creates or truncates
WriteFileSyncLost(f, h) == f

WriteFileSync(f, h) == [exists |-> TRUE, writer |-> h]

\* fs.unlinkSync(filePath), line 164: throws ENOENT when the file is gone
UnlinkThrows(f) == ~f.exists

UnlinkSync(f) == NoFile

\* The response-error hook is entered for the h-th failed request and runs
\* up to its first await that waits for I/O: handleError builds the record
\* and enters one delivery path, which serializes, (file mode) writes
\* error.json, and starts the POST.  Lines 60-61, 71-89, 98-125, 135-158.
Intercept(h, e, writeOk) ==
  /\ phase = "ready"
  /\ interceptors > 0
  /\ pc[h] = "idle"
  /\ \A g \in Handlers : g < h => pc[g] # "idle"
  /\ Quiescent
  /\ LET d == BuildErrorDetails(e)
         p == DeliveryPath(this.sendAsFile)
         throws == IF p = "file" THEN JsonContentThrows(d) ELSE MessageThrows(d)
         started == ~throws /\ (p = "file" => writeOk)
     IN
     /\ error' = [error EXCEPT ![h] = e]
     /\ errorDetails' = [errorDetails EXCEPT ![h] = d]
     /\ delivery' = [delivery EXCEPT ![h] = p]
     /\ overlapped' = [g \in Handlers |->
                         IF g = h THEN \E k \in Handlers \ {h} : Running(k)
                         ELSE overlapped[g] \/ Running(g)]
     /\ exc' = [exc EXCEPT ![h] =
                  IF throws THEN SecondaryError("TypeError", h)
                  ELSE IF ~started THEN SecondaryError("EIO", h)
                  ELSE NoException]
     /\ pc' = [pc EXCEPT ![h] = IF started THEN "awaitPost" ELSE "sendSettled"]
     /\ post' = [post EXCEPT ![h] = IF started THEN "pending" ELSE "none"]
     /\ file' = IF started /\ p = "file" THEN WriteFileSync(file, h) ELSE file
     /\ tempWrites' = [tempWrites EXCEPT ![h] =
                         IF started /\ p = "file" THEN @ + 1 ELSE @]
     /\ docPosts' = [docPosts EXCEPT ![h] =
                       IF started /\ p = "file" THEN @ + 1 ELSE @]
     /\ msgPosts' = [msgPosts EXCEPT ![h] =
                       IF started /\ p = "inline" THEN @ + 1 ELSE @]
  /\ UNCHANGED <<ctorVars, uploaded, logIssued, logState, diag, callerOutcome>>

\* fs.createReadStream(filePath), line 154: the stream opens and reads the
\* path while the upload is in flight, not when it is created
StreamRead(h) ==
  /\ pc[h] = "awaitPost"
  /\ delivery[h] = "file"
  /\ uploaded[h].state = "unread"
  /\ Quiescent
  /\ uploaded' = [uploaded EXCEPT ![h] =
                    IF file.exists THEN [state |-> "read", writer |-> file.writer]
                    ELSE [state |-> "missing", writer |-> 0]]
  /\ UNCHANGED <<ctorVars, pc, error, errorDetails, delivery, exc, post, msgPosts,
                 docPosts, tempWrites, file, logIssued, logState, diag,
                 callerOutcome, overlapped>>

\* axios.post settles; the rest of sendTelegramMessage (lines 126-128) or of
\* sendErrorAsFile (lines 161-165) runs: catch, then (file mode) finally
PostCompleteKeepOnFailure(h, ok) ==
  /\ pc[h] = "awaitPost"
  /\ Quiescent
  /\ ok => (delivery[h] = "file" => uploaded[h].state = "read")
  /\ post' = [post EXCEPT ![h] = IF ok THEN "ok" ELSE "failed"]
  /\ diag' = [diag EXCEPT ![h] =
                IF ok THEN @
                ELSE @ \cup {IF delivery[h] = "file" THEN "telegram-file"
                             ELSE "telegram-message"}]
  /\ IF delivery[h] = "file" /\ ok
     THEN IF UnlinkThrows(file)
          THEN /\ exc' = [exc EXCEPT ![h] = SecondaryError("ENOENT", h)]
               /\ UNCHANGED file
          ELSE /\ file' = UnlinkSync(file)
               /\ UNCHANGED exc
     ELSE UNCHANGED <<file, exc>>
  /\ pc' = [pc EXCEPT ![h] = "sendSettled"]
  /\ UNCHANGED <<ctorVars, error, errorDetails, delivery, msgPosts, docPosts,
                 tempWrites, uploaded, logIssued, logState, callerOutcome,
                 overlapped>>

PostComplete(h, ok) ==
  /\ pc[h] = "awaitPost"
  /\ Quiescent
  /\ ok => (delivery[h] = "file" => uploaded[h].state = "read")
  /\ post' = [post EXCEPT ![h] = IF ok THEN "ok" ELSE "failed"]
  /\ diag' = [diag EXCEPT ![h] =
                IF ok THEN @
                ELSE @ \cup {IF delivery[h] = "file" THEN "telegram-file"
                             ELSE "telegram-message"}]
  /\ IF delivery[h] = "file"
     THEN IF UnlinkThrows(file)
          THEN /\ exc' = [exc EXCEPT ![h] = SecondaryError("ENOENT", h)]
               /\ UNCHANGED file
          ELSE /\ file' = UnlinkSync(file)
               /\ UNCHANGED exc
     ELSE UNCHANGED <<file, exc>>
  /\ pc' = [pc EXCEPT ![h] = "sendSettled"]
  /\ UNCHANGED <<ctorVars, error, errorDetails, delivery, msgPosts, docPosts,
                 tempWrites, uploaded, logIssued, logState, callerOutcome,
                 overlapped>>

\* handleError resumes after `await this.sendError...` (lines 86, 88): a
\* rejection leaves handleError at once; otherwise logError (lines 91,
\* 172-182) builds the entry and starts fs.appendFile without waiting
HandleErrorResumeNoLog(h) ==
  /\ pc[h] = "sendSettled"
  /\ pc' = [pc EXCEPT ![h] = "handleSettled"]
  /\ UNCHANGED <<ctorVars, error, errorDetails, delivery, exc, post, msgPosts,
                 docPosts, tempWrites, uploaded, file, logIssued, logState, diag,
                 callerOutcome, overlapped>>

HandleErrorResume(h) ==
  /\ pc[h] = "sendSettled"
  /\ IF exc[h] # NoException
     THEN UNCHANGED <<exc, logIssued, logState>>
     ELSE IF LogEntryThrows(errorDetails[h])
     THEN /\ exc' = [exc EXCEPT ![h] = SecondaryError("TypeError", h)]
          /\ UNCHANGED <<logIssued, logState>>
     ELSE /\ logIssued' = [logIssued EXCEPT ![h] = @ + 1]
          /\ logState' = [logState EXCEPT ![h] = "pending"]
          /\ UNCHANGED exc
  /\ pc' = [pc EXCEPT ![h] = "handleSettled"]
  /\ UNCHANGED <<ctorVars, error, errorDetails, delivery, post, msgPosts,
                 docPosts, tempWrites, uploaded, file, diag, callerOutcome,
                 overlapped>>

\* the interceptor resumes after `await this.handleError(error)` (line 61):
\* a rejection of handleError is what the interceptor rejects with;
\* otherwise `return Promise.reject(error)` (line 62)
InterceptorResume(h) ==
  /\ pc[h] = "handleSettled"
  /\ callerOutcome' = [callerOutcome EXCEPT ![h] =
                         [state |-> "rejected",
                          reason |-> IF exc[h] # NoException THEN exc[h]
                                     ELSE OriginalError(h)]]
  /\ pc' = [pc EXCEPT ![h] = "done"]
  /\ UNCHANGED <<ctorVars, error, errorDetails, delivery, exc, post, msgPosts,
                 docPosts, tempWrites, uploaded, file, logIssued, logState, diag,
                 overlapped>>

\* the fs.appendFile callback, lines 177-181
AppendCompleteRethrow(h, ok) ==
  /\ logState[h] = "pending"
  /\ Quiescent
  /\ logState' = [logState EXCEPT ![h] = IF ok THEN "written" ELSE "failed"]
  /\ diag' = [diag EXCEPT ![h] = IF ok THEN @ ELSE @ \cup {"log-write"}]
  /\ callerOutcome' = [callerOutcome EXCEPT ![h] =
                         IF ok THEN @
                         ELSE [state |-> "rejected",
                               reason |-> SecondaryError("EIO", h)]]
  /\ UNCHANGED <<ctorVars, pc, error, errorDetails, delivery, exc, post, msgPosts,
                 docPosts, tempWrites, uploaded, file, logIssued, overlapped>>

AppendComplete(h, ok) ==
  /\ logState[h] = "pending"
  /\ Quiescent
  /\ logState' = [logState EXCEPT ![h] = IF ok THEN "written" ELSE "failed"]
  /\ diag' = [diag EXCEPT ![h] = IF ok THEN @ ELSE @ \cup {"log-write"}]
  /\ UNCHANGED <<ctorVars, pc, error, errorDetails, delivery, exc, post, msgPosts,
                 docPosts, tempWrites, uploaded, file, logIssued, callerOutcome,
                 overlapped>>

Next ==
  \/ Construct
  \/ \E h \in Handlers, e \in AxiosErrors, writeOk \in BOOLEAN : Intercept(h, e, writeOk)
  \/ \E h \in Handlers : StreamRead(h)
  \/ \E h \in Handlers, ok \in BOOLEAN : PostComplete(h, ok)
  \/ \E h \in Handlers : HandleErrorResume(h)
  \/ \E h \in Handlers : InterceptorResume(h)
  \/ \E h \in Handlers, ok \in BOOLEAN : AppendComplete(h, ok)

Spec == Init /\ [][Next]_vars

TypeOK ==
  /\ phase \in {"new", "failed", "ready"}
  /\ \A h \in Handlers :
       /\ pc[h] \in {"idle", "awaitPost", "sendSettled", "handleSettled", "done"}
       /\ post[h] \in {"none", "pending", "ok", "failed"}
       /\ logState[h] \in {"none", "pending", "written", "failed"}

----------------------------------------------------------------------------
Settled(h) == callerOutcome[h].state # "pending"

RejectedWithOriginal(h) ==
  callerOutcome[h] = [state |-> "rejected", reason |-> OriginalError(h)]

\* C1: every intercepted failure reaches the caller as a rejection with the
\* original error object, never a success and never another error.
C1_CallerGetsOriginalError ==
  \A h \in Handlers : Settled(h) => RejectedWithOriginal(h)

\* C2: every intercepted failure issues exactly one log append, whatever the
\* delivery mode and the delivery outcome.
C2_OneAppendPerFailure ==
  \A h \in Handlers : pc[h] = "done" => logIssued[h] = 1

\* C3: when the Telegram POST fails, handleError still completes normally
\* and logError is still invoked for that failure.
C3_DeliveryFailureContained ==
  \A h \in Handlers :
    (post[h] = "failed" /\ pc[h] \in {"handleSettled", "done"})
      => (exc[h] = NoException /\ logIssued[h] = 1)

C5_Construction ==
  /\ phase # "new" =>
       ((phase = "failed") <=> (Falsy(options, "botToken") \/ Falsy(options, "chatId")))
  /\ phase = "failed" =>
       /\ thrown \in {BotTokenRequired, ChatIdRequired}
       /\ axiosCreated = 0 /\ interceptors = 0
       /\ DOMAIN this = {}
  /\ phase = "ready" =>
       /\ thrown = ""
       /\ axiosCreated = 1 /\ interceptors = 1

C5_Witness ==
  /\ phase = "failed"
  /\ ~Falsy(options, "chatId")
  /\ "botToken" \in DOMAIN options /\ options.botToken = ""

\* C6: each intercepted failure enters exactly one delivery path, chosen by
\* sendAsFile alone: file mode never issues sendMessage, inline mode never
\* writes error.json and never issues sendDocument.
C6_ExactlyOnePath ==
  \A h \in Handlers :
    pc[h] # "idle" =>
      /\ delivery[h] \in {"file", "inline"}
      /\ this.sendAsFile =>
           (delivery[h] = "file" /\ msgPosts[h] = 0 /\ docPosts[h] <= 1)
      /\ ~this.sendAsFile =>
           /\ delivery[h] = "inline" /\ msgPosts[h] <= 1
           /\ docPosts[h] = 0 /\ tempWrites[h] = 0 /\ ~file.exists
      /\ post[h] # "none" => msgPosts[h] + docPosts[h] = 1

C6_Witness ==
  \E h \in Handlers :
    /\ pc[h] = "done" /\ this.sendAsFile /\ docPosts[h] = 1 /\ post[h] = "ok"

\* C7: without a response, status, statusText and responseData are all the
\* "no response" sentinel; with one, they are the response's status, status
\* text and body.
C7_SentinelAllOrNone ==
  \A h \in Handlers :
    pc[h] # "idle" =>
      LET e == error[h]
          d == errorDetails[h]
      IN IF HasResponse(e)
         THEN /\ d.status = e.response.status
              /\ d.statusText = e.response.statusText
              /\ d.responseData = e.response.data
         ELSE /\ d.status = NoResponse
              /\ d.statusText = NoResponse
              /\ d.responseData = NoResponse

C7_Witness ==
  \E h, g \in Handlers :
    /\ pc[h] # "idle" /\ ~HasResponse(error[h]) /\ "config" \in DOMAIN error[h]
    /\ pc[g] # "idle" /\ HasResponse(error[g]) /\ errorDetails[g].status = "404"

\* C8: a failed log append is reported to diagnostic output only:
\* handleError has completed normally and the caller gets the original error.
C8_LogFailureAbsorbed ==
  \A h \in Handlers :
    /\ logState[h] = "failed" =>
         /\ "log-write" \in diag[h]
         /\ exc[h] = NoException
         /\ pc[h] \in {"handleSettled", "done"}
    /\ (logState[h] \in {"written", "failed"} /\ Settled(h))
         => RejectedWithOriginal(h)

C8_Witness ==
  \E h \in Handlers : logState[h] = "failed" /\ RejectedWithOriginal(h)

\* C9: a handler uploads another handler's record, finds error.json missing
\* when it reads it, or finds it deleted in its cleanup, only if it overlapped
\* with another handler; handlers that run one after another never collide.
ReadForeign(h) == uploaded[h].state = "read" /\ uploaded[h].writer # h
ReadMissing(h) == uploaded[h].state = "missing"
CleanupFoundNoFile(h) == exc[h] = SecondaryError("ENOENT", h)

C9_CollisionOnlyWhenOverlapping ==
  \A h \in Handlers :
    (ReadForeign(h) \/ ReadMissing(h) \/ CleanupFoundNoFile(h)) => overlapped[h]

C9_Witness ==
  \E h, g \in Handlers :
    /\ ReadForeign(h) /\ post[h] = "ok"
    /\ CleanupFoundNoFile(g)

\* C10: the log append is initiated only after the delivery attempt has
\* finished, and the original error is re-raised only after the log append
\* was initiated, without waiting for the write to complete.
C10_DeliveryThenLogThenReraise ==
  \A h \in Handlers :
    /\ logIssued[h] > 0 =>
         /\ post[h] \in {"ok", "failed"}
         /\ exc[h] = NoException
         /\ delivery[h] = "file" => (file.exists => file.writer # h)
    /\ RejectedWithOriginal(h) => logIssued[h] = 1

C10_Witness ==
  \E h \in Handlers : RejectedWithOriginal(h) /\ logState[h] = "pending"
====
